---- MODULE Spec2Model ----
(***************************************************************************)
(* Order lifecycle engine of the restaurant operations console:            *)
(* the order status buttons of the AdminDashboard detail panel, the        *)
(* delivery-start modal, the receipt-print finalization, the driver        *)
(* registry, and the store services they call (ordersService,              *)
(* driversService).                                                        *)
(*                                                                         *)
(* The order collection `orders` stands for the store's rows and for the   *)
(* in-memory view the console renders from (the view follows the store's   *)
(* change feed).  The detail panel, the print modal and the print timer    *)
(* each hold their own copy of an Order object, taken when the operator    *)
(* clicked; those copies are separate variables.                           *)
(***************************************************************************)
EXTENDS Integers, Sequences, FiniteSets, TLC

\* ---------------------------------------------------------------- bounds
MaxOrders == 1
MaxTicks == 1
MaxLoad == 1
\* orders the store holds while the intake monitor is followed
MaxIntakeOrders == 2
MaxNotes == 1
MaxFailures == 1
\* orders in the collection the report is computed from
MaxReportOrders == 1
\* orders in the collection the charts are computed from
MaxChartOrders == 2

\* ------------------------------------------------------ program constants
MinuteMs == 60000
DayMs == 86400000
HourMs == 3600000
DefaultMinutes == 30
\* total of an order, in cents, where the amount plays no part
DefaultTotal == 1000
QuickMinutes == {15, 20, 25, 30, 45, 60}

Statuses == {"pending", "preparing", "ready", "delivery", "completed", "cancelled"}
DeliveryTypes == {"delivery", "pickup"}
DriverStatuses == {"available", "busy", "offline"}
Tabs == {"orders", "history", "settings"}
Permissions == {"default", "granted", "denied"}
SyncStatuses == {"connected", "reconnecting", "failed", "offline"}
\* the registry holds two drivers
Drivers == {1, 2}
NoDriver == 0

\* An optional value: << >> is null/undefined, <<v>> is v.
Null == << >>
Some(v) == <<v>>

\* the menu when the console opens: two dishes, prices in cents
MenuCatalog ==
  {[id |-> 1, name |-> "gyros", category |-> "mains", price |-> 900],
   [id |-> 2, name |-> "baklava", category |-> "desserts", price |-> 500]}
Categories == {m.category : m \in MenuCatalog}

VARIABLES
  orders,                   \* OrdersContext.orders: sequence of Order
  drivers,                  \* DriversContext.drivers: id -> Driver
  now,                      \* wall clock, in milliseconds (new Date())
  activeTab,                \* console tab shown
  selectedOrder,            \* detail panel's Order copy, or Null
  printingOrder,            \* receipt modal's Order copy, or Null
  isPrinting,               \* print job running
  printTimer,               \* Order captured by the pending 2.5 s timeout, or Null
  showDeliveryModal,
  deliveryOrderId,          \* order id the delivery modal is about, or Null
  estimatedDeliveryMinutes, \* minutes field of the delivery modal
  mounted,                  \* the AdminDashboard is mounted
  prevOrderCount,           \* prevOrderCount.current
  effectDeps,               \* dependencies of the detection effect at its last run
  notificationPermission,
  audioAlertsEnabled,
  toastNotification,        \* id of the order the toast is about, or Null
  toastTimers,              \* pending 5 s timeouts, oldest first, each with the
                            \* number of the notification it was started with
  osNotifications,          \* OS notifications on screen: the Order each holds
  notified,                 \* notifications raised so far, oldest first
  soundsPlayed,             \* alert tones started by playNotificationSound
  syncStatus,
  syncInterval,             \* the 15 s health-check interval is running
  reconnectTimer,           \* a 2 s timeout of the health check is pending
  customDateRange,          \* report range: [start, end], each a Date or Null
  menuItems,                \* MenuContext.menuItems: the current catalog
  staffNotes,               \* rows of the staff_notes table
  newStaffNote,             \* text of the note field
  staffName,                \* text of the name field
  storeError,               \* error the last rejected store call threw, or Null
  failedRequests            \* requests the store has rejected

\* monitor, toast and health-check state
intakeVars == <<mounted, prevOrderCount, effectDeps, notificationPermission,
                audioAlertsEnabled, toastNotification, toastTimers,
                osNotifications, notified, soundsPlayed, syncStatus,
                syncInterval, reconnectTimer>>

reportVars == <<customDateRange, menuItems>>

\* staff notes and the outcome of rejected store calls
storeVars == <<staffNotes, newStaffNote, staffName, storeError, failedRequests>>

vars == <<orders, drivers, now, activeTab, selectedOrder, printingOrder, isPrinting,
          printTimer, showDeliveryModal, deliveryOrderId,
          estimatedDeliveryMinutes, intakeVars, reportVars, storeVars>>

uiVars == <<activeTab, selectedOrder, printingOrder, isPrinting, printTimer,
            showDeliveryModal, deliveryOrderId, estimatedDeliveryMinutes>>

\* ------------------------------------------------------------- helpers
OrderIds == {orders[i].id : i \in DOMAIN orders}
IndexOf(id) == CHOOSE i \in DOMAIN orders : orders[i].id = id
OrderById(id) == orders[IndexOf(id)]
IsTerminal(s) == s \in {"completed", "cancelled"}

\* The order's `deliveryMethod` as the detail panel reads it.
deliveryMethod(o) == o.type

\* The Order object a handler keeps (setSelectedOrder(order), the closure of
\* the print timeout): the fields the handlers read later.
OrderCopy(o) ==
  [id |-> o.id, status |-> o.status, type |-> o.type,
   assignedDriver |-> o.assignedDriver, total |-> o.total]

\* ------------------------------------------- ordersService (the store)
\* Each update is .update({...}).eq('id', id): it rewrites the row whose id
\* matches and leaves the other rows alone.  The rows carry the fields the
\* lifecycle reads; the created_at / updated_at stamps are not kept.

\* The row the ordering flow hands to the store: a new order is pending,
\* has no driver and no delivery timestamps.  created_at is the store's
\* stamp; it grows with every insertion and is kept as the row's rank.
NewOrder(id, type) ==
  [id |-> id, status |-> "pending", type |-> type,
   assignedDriver |-> NoDriver, deliveryDepartedAt |-> Null,
   estimatedDeliveryTime |-> Null, createdAt |-> id, total |-> DefaultTotal]

\* variant: the rows are delivered oldest first
ordersService_getAll_ascending(os) ==
  [k \in 1..Len(os) |->
     CHOOSE o \in {os[i] : i \in DOMAIN os} :
       Cardinality({i \in DOMAIN os : os[i].createdAt < o.createdAt}) = k - 1]

\* .order('created_at', { ascending: false }): newest row first
ordersService_getAll(os) ==
  [k \in 1..Len(os) |->
     CHOOSE o \in {os[i] : i \in DOMAIN os} :
       Cardinality({i \in DOMAIN os : os[i].createdAt > o.createdAt}) = k - 1]

ordersService_create(os, order) == Append(os, order)

\* variant: completing an order clears its delivery timestamps
ordersService_updateStatus_clearsEta(os, id, status, t) ==
  [i \in DOMAIN os |->
     IF os[i].id = id
     THEN IF status = "completed"
          THEN [os[i] EXCEPT !.status = status, !.deliveryDepartedAt = Null,
                             !.estimatedDeliveryTime = Null]
          ELSE [os[i] EXCEPT !.status = status]
     ELSE os[i]]

ordersService_updateStatus(os, id, status, t) ==
  [i \in DOMAIN os |->
     IF os[i].id = id
     THEN [os[i] EXCEPT !.status = status]
     ELSE os[i]]

\* variant: the assignment also puts the order back to pending
ordersService_assignDriver_resets(os, id, driver_id, t) ==
  [i \in DOMAIN os |->
     IF os[i].id = id
     THEN [os[i] EXCEPT !.assignedDriver = driver_id, !.status = "pending"]
     ELSE os[i]]

ordersService_assignDriver(os, id, driver_id, t) ==
  [i \in DOMAIN os |->
     IF os[i].id = id
     THEN [os[i] EXCEPT !.assignedDriver = driver_id]
     ELSE os[i]]

\* variant: the minutes are scaled as seconds
ordersService_startDelivery_seconds(os, id, estimatedMinutes, t) ==
  LET estimatedDeliveryTime == t + estimatedMinutes * 1000
  IN  [i \in DOMAIN os |->
         IF os[i].id = id
         THEN [os[i] EXCEPT !.status = "delivery",
                            !.deliveryDepartedAt = Some(t),
                            !.estimatedDeliveryTime = Some(estimatedDeliveryTime)]
         ELSE os[i]]

ordersService_startDelivery(os, id, estimatedMinutes, t) ==
  LET estimatedDeliveryTime == t + estimatedMinutes * MinuteMs
  IN  [i \in DOMAIN os |->
         IF os[i].id = id
         THEN [os[i] EXCEPT !.status = "delivery",
                            !.deliveryDepartedAt = Some(t),
                            !.estimatedDeliveryTime = Some(estimatedDeliveryTime)]
         ELSE os[i]]

\* insert([{ order_id, text, author }]) into staff_notes
ordersService_addStaffNote(notes, order_id, text, author) ==
  Append(notes, [order_id |-> order_id, text |-> text, author |-> author])

\* the error a store request can end with
StoreErrors == {"StoreError"}

\* variant: the rejected request has changed the rows all the same
StoreReply_applied(rows, updated, error) ==
  IF error = Null THEN [rows |-> updated, thrown |-> Null]
  ELSE [rows |-> updated, thrown |-> error]

\* const { data, error } = await supabase...; if (error) throw error;
\* return data.  `updated` is the table after the request; a request the
\* store rejects leaves the table as it was, and the function throws.
StoreReply(rows, updated, error) ==
  IF error = Null THEN [rows |-> updated, thrown |-> Null]
  ELSE [rows |-> rows, thrown |-> error]

\* ------------------------------------------------------ driversService
driversService_updateStatus(ds, id, status, t) ==
  [ds EXCEPT ![id] = [@ EXCEPT !.status = status]]

driversService_updateActiveDeliveries(ds, id, count, t) ==
  [ds EXCEPT ![id] = [@ EXCEPT !.activeDeliveries = count,
                               !.status = IF count > 0 THEN "busy" ELSE "available"]]

driversService_getAvailable(ds) == {d \in DOMAIN ds : ds[d].status # "offline"}

\* ------------------------------------- minutes field of the delivery modal
\* Text typed into <input type="number">; parseInt reads an optional sign and
\* the leading decimal digits, and yields NaN when there is no digit.
DigitVal(c) == IF c = "5" THEN 5 ELSE 0
IsDigit(c) == c \in {"0", "5"}
\* texts the operator may leave in the field: empty, zero, a count, a count
\* with a fraction, a negative count, a lone sign
InputTexts == {<< >>, <<"0">>, <<"5">>, <<"5", ".", "5">>, <<"-", "5">>, <<"-">>}
NaN == Null

RECURSIVE LeadingDigits(_, _)
\* value of the longest digit prefix of s, given the value acc read so far
LeadingDigits(s, acc) ==
  IF s = << >> \/ ~IsDigit(Head(s)) THEN acc
  ELSE LeadingDigits(Tail(s), acc * 10 + DigitVal(Head(s)))

parseInt(s) ==
  LET neg  == s # << >> /\ Head(s) = "-"
      body == IF neg THEN Tail(s) ELSE s
  IN  IF body = << >> \/ ~IsDigit(Head(body)) THEN NaN
      ELSE IF neg THEN Some(0 - LeadingDigits(body, 0))
      ELSE Some(LeadingDigits(body, 0))

\* parseInt(e.target.value) || 30 : NaN and 0 are falsy
MinutesFromInput(s) ==
  LET v == parseInt(s) IN IF v = NaN THEN DefaultMinutes
                          ELSE IF v[1] = 0 THEN DefaultMinutes ELSE v[1]

\* ------------------------------------- OrdersContext / DriversContext
\* The functions the dashboard takes from the contexts.  Each issues the
\* store call of the same purpose; Dispatch keeps the drivers' load counters.
AdjustLoad(ds, d, delta) ==
  IF d = NoDriver THEN ds
  ELSE driversService_updateActiveDeliveries(ds, d, ds[d].activeDeliveries + delta, now)

updateOrderStatus(id, status) ==
  LET o == OrderById(id)
      finishes == status = "completed" /\ o.status # "completed"
  IN  /\ orders' = ordersService_updateStatus(orders, id, status, now)
      /\ drivers' = IF finishes THEN AdjustLoad(drivers, o.assignedDriver, -1)
                    ELSE drivers

assignDriver(id, driverId) ==
  LET prev == OrderById(id).assignedDriver
  IN  /\ orders' = ordersService_assignDriver(orders, id, driverId, now)
      /\ drivers' = AdjustLoad(AdjustLoad(drivers, prev, -1), driverId, 1)

startDelivery(id, estimatedMinutes) ==
  /\ orders' = ordersService_startDelivery(orders, id, estimatedMinutes, now)
  /\ UNCHANGED drivers

updateDriverStatus(id, status) ==
  /\ drivers' = driversService_updateStatus(drivers, id, status, now)
  /\ UNCHANGED orders

\* OrdersContext.orders: the collection as the store delivers it
ordersView == ordersService_getAll(orders)

\* the model follows the load counters within -MaxLoad..MaxLoad
LoadInRange(ds) == \A d \in Drivers :
  ds[d].activeDeliveries \in (0 - MaxLoad)..MaxLoad

\* --------------------------------------------------------------- Init
\* The dashboard as it is mounted over the order collection and the clock.
InitConsole ==
  /\ drivers = [d \in Drivers |->
                  [status |-> "available", activeDeliveries |-> 0]]
  /\ activeTab = "orders"
  /\ selectedOrder = Null
  /\ printingOrder = Null
  /\ isPrinting = FALSE
  /\ printTimer = Null
  /\ showDeliveryModal = FALSE
  /\ deliveryOrderId = Null
  /\ estimatedDeliveryMinutes = DefaultMinutes
  /\ mounted = TRUE
  /\ prevOrderCount = Len(orders)
  /\ effectDeps = <<orders, "default", TRUE>>
  /\ notificationPermission = "default"
  /\ audioAlertsEnabled = TRUE
  /\ toastNotification = Null
  /\ toastTimers = << >>
  /\ osNotifications = {}
  /\ notified = << >>
  /\ soundsPlayed = 0
  /\ syncStatus = "connected"
  /\ syncInterval = TRUE
  /\ reconnectTimer = FALSE
  /\ customDateRange = [start |-> Some(now - 7 * DayMs), end |-> Some(now)]
  /\ menuItems = MenuCatalog
  /\ staffNotes = << >>
  /\ newStaffNote = << >>
  /\ staffName = <<"A">>
  /\ storeError = Null
  /\ failedRequests = 0

\* The console opens on an empty order collection.
Init ==
  /\ orders = << >>
  /\ now = 0
  /\ InitConsole

\* ------------------------------------------------------- environment
\* Time passes.
Tick ==
  /\ now < MaxTicks * MinuteMs
  /\ now' = now + MinuteMs
  /\ UNCHANGED <<orders, drivers, uiVars>>
  /\ UNCHANGED <<intakeVars, reportVars, storeVars>>

\* The ordering flow stores a new order.
OrderArrives(type) ==
  /\ Len(orders) < MaxOrders
  /\ orders' = ordersService_create(orders, NewOrder(Len(orders) + 1, type))
  /\ UNCHANGED <<drivers, now, uiVars>>
  /\ UNCHANGED <<intakeVars, reportVars, storeVars>>

\* The ordering flow stores a new order of the given total (in cents).
OrderPlaced(type, total) ==
  /\ Len(orders) < MaxOrders
  /\ orders' = ordersService_create(orders,
                  [NewOrder(Len(orders) + 1, type) EXCEPT !.total = total])
  /\ UNCHANGED <<drivers, now, uiVars>>
  /\ UNCHANGED <<intakeVars, reportVars, storeVars>>

\* Another client of the store cancels an order that is still open; the
\* change feed brings the row into the console's order collection.
StoreCancel(id) ==
  /\ id \in OrderIds
  /\ ~IsTerminal(OrderById(id).status)
  /\ orders' = ordersService_updateStatus(orders, id, "cancelled", now)
  /\ UNCHANGED <<drivers, now, uiVars>>
  /\ UNCHANGED <<intakeVars, reportVars, storeVars>>

\* ------------------------------------------------------ the dashboard
\* Both modals are fixed full-screen overlays above the page.
DeliveryModalOpen == mounted /\ showDeliveryModal /\ deliveryOrderId # Null
PrintModalOpen == mounted /\ printingOrder # Null
PageReachable == mounted /\ ~DeliveryModalOpen /\ ~PrintModalOpen
PanelOpen == PageReachable /\ activeTab \in {"orders", "history"} /\ selectedOrder # Null

\* processedOrders: the cards of the current tab
matchesTab(o) ==
  IF activeTab = "orders" THEN ~IsTerminal(o.status)
  ELSE IF activeTab = "history" THEN IsTerminal(o.status)
  ELSE TRUE

SetActiveTab(tab) ==
  /\ PageReachable
  /\ activeTab' = tab
  /\ selectedOrder' = Null
  /\ UNCHANGED <<orders, drivers, now, printingOrder, isPrinting, printTimer,
                 showDeliveryModal, deliveryOrderId, estimatedDeliveryMinutes>>
  /\ UNCHANGED <<intakeVars, reportVars, storeVars>>

SelectOrder(i) ==
  /\ PageReachable
  /\ activeTab \in {"orders", "history"}
  /\ i \in DOMAIN orders
  /\ matchesTab(orders[i])
  /\ selectedOrder' = Some(OrderCopy(orders[i]))
  /\ UNCHANGED <<orders, drivers, now, activeTab, printingOrder, isPrinting,
                 printTimer, showDeliveryModal, deliveryOrderId,
                 estimatedDeliveryMinutes>>
  /\ UNCHANGED <<intakeVars, reportVars, storeVars>>

CloseDetail ==
  /\ PanelOpen
  /\ selectedOrder' = Null
  /\ UNCHANGED <<orders, drivers, now, activeTab, printingOrder, isPrinting,
                 printTimer, showDeliveryModal, deliveryOrderId,
                 estimatedDeliveryMinutes>>
  /\ UNCHANGED <<intakeVars, reportVars, storeVars>>

\* variant: the preparing branch does not look at the delivery method
OfferedButton_noBranch(o) ==
  IF IsTerminal(o.status) THEN "none"
  ELSE IF o.status = "pending" THEN "startPreparing"
  ELSE IF o.status = "preparing" THEN "readyForPickup"
  ELSE IF o.status \in {"ready", "delivery"} THEN "markCompleted"
  ELSE "none"

\* Which status button the panel offers for the Order copy it holds.
OfferedButton(o) ==
  IF IsTerminal(o.status) THEN "none"
  ELSE IF o.status = "pending" THEN "startPreparing"
  ELSE IF o.status = "preparing"
       THEN (IF deliveryMethod(o) = "delivery" THEN "outForDelivery"
             ELSE "readyForPickup")
  ELSE IF o.status \in {"ready", "delivery"} THEN "markCompleted"
  ELSE "none"

ClickStartPreparing ==
  /\ PanelOpen
  /\ OfferedButton(selectedOrder[1]) = "startPreparing"
  /\ updateOrderStatus(selectedOrder[1].id, "preparing")
  /\ UNCHANGED <<now, uiVars>>
  /\ UNCHANGED <<intakeVars, reportVars, storeVars>>

ClickReadyForPickup ==
  /\ PanelOpen
  /\ OfferedButton(selectedOrder[1]) = "readyForPickup"
  /\ updateOrderStatus(selectedOrder[1].id, "ready")
  /\ UNCHANGED <<now, uiVars>>
  /\ UNCHANGED <<intakeVars, reportVars, storeVars>>

ClickMarkCompleted ==
  /\ PanelOpen
  /\ OfferedButton(selectedOrder[1]) = "markCompleted"
  /\ updateOrderStatus(selectedOrder[1].id, "completed")
  /\ LoadInRange(drivers')
  /\ UNCHANGED <<now, uiVars>>
  /\ UNCHANGED <<intakeVars, reportVars, storeVars>>

ClickOutForDelivery ==
  /\ PanelOpen
  /\ OfferedButton(selectedOrder[1]) = "outForDelivery"
  /\ deliveryOrderId' = Some(selectedOrder[1].id)
  /\ estimatedDeliveryMinutes' = DefaultMinutes
  /\ showDeliveryModal' = TRUE
  /\ UNCHANGED <<orders, drivers, now, activeTab, selectedOrder, printingOrder,
                 isPrinting, printTimer>>
  /\ UNCHANGED <<intakeVars, reportVars, storeVars>>

\* ---- delivery start modal
PickQuickMinutes(mins) ==
  /\ DeliveryModalOpen
  /\ mins \in QuickMinutes
  /\ estimatedDeliveryMinutes' = mins
  /\ UNCHANGED <<orders, drivers, now, activeTab, selectedOrder, printingOrder,
                 isPrinting, printTimer, showDeliveryModal, deliveryOrderId>>
  /\ UNCHANGED <<intakeVars, reportVars, storeVars>>

TypeMinutes(text) ==
  /\ DeliveryModalOpen
  /\ text \in InputTexts
  /\ estimatedDeliveryMinutes' = MinutesFromInput(text)
  /\ UNCHANGED <<orders, drivers, now, activeTab, selectedOrder, printingOrder,
                 isPrinting, printTimer, showDeliveryModal, deliveryOrderId>>
  /\ UNCHANGED <<intakeVars, reportVars, storeVars>>

DismissDeliveryModal ==
  /\ DeliveryModalOpen
  /\ showDeliveryModal' = FALSE
  /\ UNCHANGED <<orders, drivers, now, activeTab, selectedOrder, printingOrder,
                 isPrinting, printTimer, deliveryOrderId,
                 estimatedDeliveryMinutes>>
  /\ UNCHANGED <<intakeVars, reportVars, storeVars>>

ConfirmStartDelivery ==
  /\ DeliveryModalOpen
  /\ startDelivery(deliveryOrderId[1], estimatedDeliveryMinutes)
  /\ showDeliveryModal' = FALSE
  /\ deliveryOrderId' = Null
  /\ UNCHANGED <<now, activeTab, selectedOrder, printingOrder, isPrinting,
                 printTimer, estimatedDeliveryMinutes>>
  /\ UNCHANGED <<intakeVars, reportVars, storeVars>>

\* ---- receipt print
ClickPrintReceipt ==
  /\ PanelOpen
  /\ printingOrder' = selectedOrder
  /\ UNCHANGED <<orders, drivers, now, activeTab, selectedOrder, isPrinting,
                 printTimer, showDeliveryModal, deliveryOrderId,
                 estimatedDeliveryMinutes>>
  /\ UNCHANGED <<intakeVars, reportVars, storeVars>>

CancelPrint ==
  /\ PrintModalOpen
  /\ ~isPrinting
  /\ printingOrder' = Null
  /\ UNCHANGED <<orders, drivers, now, activeTab, selectedOrder, isPrinting,
                 printTimer, showDeliveryModal, deliveryOrderId,
                 estimatedDeliveryMinutes>>
  /\ UNCHANGED <<intakeVars, reportVars, storeVars>>

\* "Confirm & Execute Print": starts the 2.5 s timeout, which keeps `order`
performActualPrint ==
  /\ PrintModalOpen
  /\ ~isPrinting
  /\ isPrinting' = TRUE
  /\ printTimer' = printingOrder
  /\ UNCHANGED <<orders, drivers, now, activeTab, selectedOrder, printingOrder,
                 showDeliveryModal, deliveryOrderId, estimatedDeliveryMinutes>>
  /\ UNCHANGED <<intakeVars, reportVars, storeVars>>

\* the timeout callback of performActualPrint
PrintTimerFires ==
  /\ printTimer # Null
  /\ LET order == printTimer[1]
     IN  IF order.status # "completed" /\ order.status # "cancelled"
         THEN updateOrderStatus(order.id, "completed")
         ELSE UNCHANGED <<orders, drivers>>
  /\ LoadInRange(drivers')
  /\ isPrinting' = FALSE
  /\ printingOrder' = Null
  /\ printTimer' = Null
  /\ UNCHANGED <<now, activeTab, selectedOrder, showDeliveryModal,
                 deliveryOrderId, estimatedDeliveryMinutes>>
  /\ UNCHANGED <<intakeVars, reportVars, storeVars>>

\* ---- drivers
\* the options of the panel's driver <select>
AssignableDrivers == {d \in Drivers : drivers[d].status # "offline"}

\* variant: the driver section is shown for every order
AssignDriverSelect_anyType(d) ==
  /\ PanelOpen
  /\ d \in AssignableDrivers \cup {NoDriver}
  /\ d # selectedOrder[1].assignedDriver
  /\ assignDriver(selectedOrder[1].id, d)
  /\ LoadInRange(drivers')
  /\ UNCHANGED <<now, uiVars>>
  /\ UNCHANGED <<intakeVars, reportVars, storeVars>>

AssignDriverSelect(d) ==
  /\ PanelOpen
  /\ selectedOrder[1].type = "delivery"
  /\ d \in AssignableDrivers \cup {NoDriver}
  /\ d # selectedOrder[1].assignedDriver
  /\ assignDriver(selectedOrder[1].id, d)
  /\ LoadInRange(drivers')
  /\ UNCHANGED <<now, uiVars>>
  /\ UNCHANGED <<intakeVars, reportVars, storeVars>>

DriverStatusSelect(d, status) ==
  /\ PageReachable
  /\ activeTab = "settings"
  /\ d \in Drivers
  /\ status \in DriverStatuses
  /\ status # drivers[d].status
  /\ updateDriverStatus(d, status)
  /\ UNCHANGED <<now, uiVars>>
  /\ UNCHANGED <<intakeVars, reportVars, storeVars>>

\* ---- staff notes
\* texts of the note field and of the name field
NoteTexts == {<< >>, <<" ">>, <<" ", "n">>}
NameTexts == {<< >>, <<"A">>}

RECURSIVE trimStart(_)
trimStart(s) == IF s # << >> /\ Head(s) = " " THEN trimStart(Tail(s)) ELSE s
Reverse(s) == [i \in 1..Len(s) |-> s[Len(s) + 1 - i]]
trim(s) == Reverse(trimStart(Reverse(trimStart(s))))

TypeNote(text) ==
  /\ PanelOpen
  /\ text \in NoteTexts
  /\ newStaffNote' = text
  /\ UNCHANGED <<orders, drivers, now, uiVars, intakeVars, reportVars,
                 staffNotes, staffName, storeError, failedRequests>>

TypeStaffName(name) ==
  /\ PanelOpen
  /\ name \in NameTexts
  /\ staffName' = name
  /\ UNCHANGED <<orders, drivers, now, uiVars, intakeVars, reportVars,
                 staffNotes, newStaffNote, storeError, failedRequests>>

\* OrdersContext.addStaffNote
addStaffNote(id, text, author) ==
  staffNotes' = ordersService_addStaffNote(staffNotes, id, text, author)

ClickAddNote ==
  /\ PanelOpen
  /\ trim(newStaffNote) # << >> /\ trim(staffName) # << >>
  /\ Len(staffNotes) < MaxNotes
  /\ addStaffNote(selectedOrder[1].id, trim(newStaffNote), trim(staffName))
  /\ newStaffNote' = << >>
  /\ UNCHANGED <<orders, drivers, now, uiVars, intakeVars, reportVars,
                 staffName, storeError, failedRequests>>

\* ---- store calls that the store rejects
\* the status a status button asks for
ButtonStatus(button) ==
  IF button = "startPreparing" THEN "preparing"
  ELSE IF button = "readyForPickup" THEN "ready"
  ELSE "completed"

\* A status button is clicked and the store rejects the update.
UpdateStatusRejected(error) ==
  /\ PanelOpen
  /\ OfferedButton(selectedOrder[1]) \in
       {"startPreparing", "readyForPickup", "markCompleted"}
  /\ failedRequests < MaxFailures
  /\ LET id == selectedOrder[1].id
         status == ButtonStatus(OfferedButton(selectedOrder[1]))
         reply == StoreReply(orders,
                             ordersService_updateStatus(orders, id, status, now),
                             Some(error))
     IN  orders' = reply.rows /\ storeError' = reply.thrown
  /\ failedRequests' = failedRequests + 1
  /\ UNCHANGED <<drivers, now, uiVars, intakeVars, reportVars, staffNotes,
                 newStaffNote, staffName>>

\* A driver is picked in the driver select and the store rejects it.
AssignDriverRejected(d, error) ==
  /\ PanelOpen
  /\ selectedOrder[1].type = "delivery"
  /\ d \in AssignableDrivers \cup {NoDriver}
  /\ d # selectedOrder[1].assignedDriver
  /\ failedRequests < MaxFailures
  /\ LET reply == StoreReply(orders,
                             ordersService_assignDriver(orders, selectedOrder[1].id,
                                                        d, now),
                             Some(error))
     IN  orders' = reply.rows /\ storeError' = reply.thrown
  /\ failedRequests' = failedRequests + 1
  /\ UNCHANGED <<drivers, now, uiVars, intakeVars, reportVars, staffNotes,
                 newStaffNote, staffName>>

\* 'Start Delivery' is confirmed and the store rejects it: the modal closes.
StartDeliveryRejected(error) ==
  /\ DeliveryModalOpen
  /\ failedRequests < MaxFailures
  /\ LET reply == StoreReply(orders,
                             ordersService_startDelivery(orders, deliveryOrderId[1],
                                                         estimatedDeliveryMinutes, now),
                             Some(error))
     IN  orders' = reply.rows /\ storeError' = reply.thrown
  /\ failedRequests' = failedRequests + 1
  /\ showDeliveryModal' = FALSE
  /\ deliveryOrderId' = Null
  /\ UNCHANGED <<drivers, now, activeTab, selectedOrder, printingOrder, isPrinting,
                 printTimer, estimatedDeliveryMinutes, intakeVars, reportVars,
                 staffNotes, newStaffNote, staffName>>

\* 'Add Note' is clicked and the store rejects the insert: the field is
\* cleared all the same.
AddNoteRejected(error) ==
  /\ PanelOpen
  /\ trim(newStaffNote) # << >> /\ trim(staffName) # << >>
  /\ failedRequests < MaxFailures
  /\ LET reply == StoreReply(staffNotes,
                             ordersService_addStaffNote(staffNotes, selectedOrder[1].id,
                                                        trim(newStaffNote), trim(staffName)),
                             Some(error))
     IN  staffNotes' = reply.rows /\ storeError' = reply.thrown
  /\ failedRequests' = failedRequests + 1
  /\ newStaffNote' = << >>
  /\ UNCHANGED <<orders, drivers, now, uiVars, intakeVars, reportVars, staffName>>

\* ---- analytics
\* Orders as the report reads them: status, payment, creation time, total.
\* "Today" is day 2; the creation times lie at the day boundaries around it.
ReportStatuses == {"completed", "delivery", "cancelled"}
PaymentStatuses == {"paid", "unpaid"}
PaymentMethods == {"cash", "card"}
ReportInstants == {2 * DayMs - 1, 2 * DayMs, 3 * DayMs - 1, 3 * DayMs}
ReportTotals == {10}
ReportOrders ==
  [status : ReportStatuses,
   payment : [status : PaymentStatuses, method : PaymentMethods],
   createdAt : ReportInstants,
   total : ReportTotals,
   type : {"pickup"},
   items : {<< >>}]
\* completed, paid orders of yesterday and today with totals in cents
\* (EUR 0.00, 0.01, 10.00, 109.00)
VatTotals == {0, 1, 1000, 10900}
VatOrders ==
  [status : {"completed"},
   payment : [status : {"paid"}, method : {"card"}],
   createdAt : {DayMs, 2 * DayMs},
   total : VatTotals,
   type : {"pickup"},
   items : {<< >>}]
VatCollections == UNION {[1..n -> VatOrders] : n \in 0..MaxReportOrders}
\* orders of the peak hour: paid, completed or cancelled, created yesterday
\* at 19:00 or today at 07:00 or 19:00
PeakInstants == {DayMs + 19 * HourMs, 2 * DayMs + 7 * HourMs, 2 * DayMs + 19 * HourMs}
PeakOrders ==
  [status : {"completed", "cancelled"},
   payment : [status : {"paid"}, method : {"card"}],
   createdAt : PeakInstants,
   total : ReportTotals,
   type : {"pickup"},
   items : {<< >>}]
PeakCollections == UNION {[1..n -> PeakOrders] : n \in 0..MaxChartOrders}

\* orders of the distribution charts: completed and paid, created yesterday
\* at 19:00 or today at 07:00, delivered or picked up, paid by any method of
\* the payment settings
ChartMethods == {"card", "cash", "ideal", "bancontact"}
ChartInstants == {DayMs + 19 * HourMs, 2 * DayMs + 7 * HourMs}
ChartOrders ==
  [status : {"completed"},
   payment : [status : {"paid"}, method : ChartMethods],
   createdAt : ChartInstants,
   total : ReportTotals,
   type : DeliveryTypes,
   items : {<< >>}]
ChartCollections == UNION {[1..n -> ChartOrders] : n \in 0..MaxChartOrders}
\* orders of the category chart: completed and paid today, with up to two
\* lines, each a dish of the catalog as it was when the order was placed
SoldLines ==
  {[id |-> m.id, name |-> m.name, price |-> m.price, quantity |-> q] :
     m \in MenuCatalog, q \in {1, 2}}
SoldLists == UNION {[1..n -> SoldLines] : n \in 0..2}
CatalogOrders ==
  [status : {"completed"},
   payment : [status : {"paid"}, method : {"card"}],
   createdAt : {2 * DayMs},
   total : ReportTotals,
   type : {"pickup"},
   items : SoldLists]
CatalogCollections == UNION {[1..n -> CatalogOrders] : n \in 0..MaxReportOrders}
ReportCollections == UNION {[1..n -> ReportOrders] : n \in 0..MaxReportOrders}
\* the clock when the report is opened: first and last millisecond of today
ReportNows == {2 * DayMs, 3 * DayMs - 1}
\* dates the date inputs can be set to
ReportDays == {1, 2, 3}
\* days of the '7 Dni' button ('30 Dni' is the same handler with 30 days)
QuickRanges == {7}

\* setHours(0, 0, 0, 0) and setHours(23, 59, 59, 999); the console's clock
\* runs on UTC
StartOfDay(t) == t - (t % DayMs)
EndOfDay(t) == StartOfDay(t) + DayMs - 1

startDate ==
  IF customDateRange.start # Null THEN Some(StartOfDay(customDateRange.start[1]))
  ELSE Null

\* variant: the end of the range is not moved to the end of its day
endDate_startOfDay ==
  IF customDateRange.end # Null THEN Some(StartOfDay(customDateRange.end[1]))
  ELSE Null

endDate ==
  IF customDateRange.end # Null THEN Some(EndOfDay(customDateRange.end[1]))
  ELSE Null

isAccepted(o) == o.payment.status = "paid" \/ o.payment.method = "cash"
paidOrders == SelectSeq(orders, isAccepted)

inRange(o) ==
  IF startDate = Null \/ endDate = Null THEN o.status = "completed"
  ELSE /\ o.status = "completed"
       /\ o.createdAt >= startDate[1]
       /\ o.createdAt <= endDate[1]
filteredOrders == SelectSeq(paidOrders, inRange)

RECURSIVE SumTotals(_)
SumTotals(os) == IF os = << >> THEN 0 ELSE Head(os).total + SumTotals(Tail(os))

\* Numbers of the report that are not whole: exact fractions num/den of a
\* euro cent, den > 0 (the totals are whole cents).
Rat(n, d) == [num |-> n, den |-> d]
Whole(n) == Rat(n, 1)
RatMul(a, b) == Rat(a.num * b.num, a.den * b.den)
RatAdd(a, b) == Rat(a.num * b.den + b.num * a.den, a.den * b.den)
RatSub(a, b) == Rat(a.num * b.den - b.num * a.den, a.den * b.den)
RatEq(a, b) == a.num * b.den = b.num * a.den
\* x.toFixed(2) of an amount that is not negative: the nearest whole cent
toFixed2(a) == (2 * a.num + a.den) \div (2 * a.den)

revenue == SumTotals(filteredOrders)

\* variant: the tax is taken as 9% on top of the amount
btwAmount_exclusive == RatMul(Whole(revenue), Rat(9, 100))

\* revenue * (9 / 109)
btwAmount == RatMul(Whole(revenue), Rat(9, 109))
netRevenue == RatSub(Whole(revenue), btwAmount)

\* !['completed', 'cancelled'].includes(o.status)
isActive(o) == ~(o.status \in {"completed", "cancelled"})

\* variant: the in-flight orders are taken inside the report range
isActiveInRange(o) ==
  /\ isActive(o)
  /\ (startDate # Null /\ endDate # Null) =>
        (o.createdAt >= startDate[1] /\ o.createdAt <= endDate[1])
activeOrders_inRange == SelectSeq(paidOrders, isActiveInRange)

activeOrders == SelectSeq(paidOrders, isActive)

\* ---- items and categories
RECURSIVE Concat(_)
Concat(lists) == IF lists = << >> THEN << >> ELSE Head(lists) \o Concat(Tail(lists))

\* the lines visited by filteredOrders.forEach(o => o.items.forEach(...))
soldItems ==
  LET eligible == filteredOrders
  IN  Concat([k \in 1..Len(eligible) |-> eligible[k].items])

RECURSIVE SumQuantity(_)
SumQuantity(lines) ==
  IF lines = << >> THEN 0 ELSE Head(lines).quantity + SumQuantity(Tail(lines))

RECURSIVE SumAmount(_)
SumAmount(lines) ==
  IF lines = << >> THEN 0
  ELSE Head(lines).price * Head(lines).quantity + SumAmount(Tail(lines))

\* variant: the dish is looked up in the menu as it was when the console opened
findMenuItem_stale(id) ==
  LET found == {m \in MenuCatalog : m.id = id}
  IN  IF found = {} THEN Null ELSE Some(CHOOSE m \in found : TRUE)

\* menuItems.find(m => m.id === i.id): Null when no dish has the id
findMenuItem(id) ==
  LET found == {m \in menuItems : m.id = id}
  IN  IF found = {} THEN Null ELSE Some(CHOOSE m \in found : TRUE)

\* itemCounts[i.name] = (itemCounts[i.name] || 0) + i.quantity
itemCounts ==
  LET sold == soldItems
  IN  [n \in {sold[k].name : k \in DOMAIN sold} |->
         SumQuantity(SelectSeq(sold, LAMBDA i : i.name = n))]

\* if (menuItem) categoryRevenue[menuItem.category] += i.price * i.quantity
categoryRevenue ==
  LET known == SelectSeq(soldItems, LAMBDA i : findMenuItem(i.id) # Null)
  IN  [c \in {findMenuItem(known[k].id)[1].category : k \in DOMAIN known} |->
         SumAmount(SelectSeq(known, LAMBDA i : findMenuItem(i.id)[1].category = c))]

\* ---- chart data
\* new Date(t).getHours() and .getDay() (0 = Sunday; 1 January 1970 was a
\* Thursday); the console's clock runs on UTC
getHours(t) == (t % DayMs) \div HourMs
getDay(t) == (4 + (t \div DayMs)) % 7

\* Array(24).fill(0), then hourlyOrders[hour]++ for every eligible order
hourlyOrders ==
  LET eligible == filteredOrders
  IN  [h \in 0..23 |->
         Cardinality({i \in DOMAIN eligible : getHours(eligible[i].createdAt) = h})]

\* if (o.delivery?.type === 'delivery') delivery++ else pickup++
deliveryMethods ==
  LET eligible == filteredOrders
  IN  [delivery |-> Cardinality({i \in DOMAIN eligible :
                                   eligible[i].type = "delivery"}),
       pickup |-> Cardinality({i \in DOMAIN eligible :
                                 eligible[i].type # "delivery"})]

\* variant: every order that is neither card nor cash is counted as ideal
paymentMethods_elseIdeal ==
  LET eligible == filteredOrders
  IN  [card |-> Cardinality({i \in DOMAIN eligible :
                               eligible[i].payment.method = "card"}),
       cash |-> Cardinality({i \in DOMAIN eligible :
                               eligible[i].payment.method = "cash"}),
       ideal |-> Cardinality({i \in DOMAIN eligible :
                                eligible[i].payment.method \notin {"card", "cash"}})]

\* card, cash and ideal are counted; an order of another method is skipped
paymentMethods ==
  LET eligible == filteredOrders
  IN  [card |-> Cardinality({i \in DOMAIN eligible :
                               eligible[i].payment.method = "card"}),
       cash |-> Cardinality({i \in DOMAIN eligible :
                               eligible[i].payment.method = "cash"}),
       ideal |-> Cardinality({i \in DOMAIN eligible :
                                eligible[i].payment.method = "ideal"})]

\* Array(7).fill(0), then dayOfWeek[day]++ for every eligible order
dayOfWeek ==
  LET eligible == filteredOrders
  IN  [d \in 0..6 |->
         Cardinality({i \in DOMAIN eligible : getDay(eligible[i].createdAt) = d})]

\* Math.max(...counts)
Max(counts) ==
  CHOOSE v \in {counts[h] : h \in DOMAIN counts} :
    \A h \in DOMAIN counts : counts[h] <= v

\* variant: the last index that holds the value
indexOf_last(counts, v) ==
  IF \E h \in DOMAIN counts : counts[h] = v
  THEN CHOOSE h \in DOMAIN counts :
         /\ counts[h] = v
         /\ \A g \in DOMAIN counts : g > h => counts[g] # v
  ELSE -1

\* counts.indexOf(v): the first index that holds the value, -1 if none does
indexOf(counts, v) ==
  IF \E h \in DOMAIN counts : counts[h] = v
  THEN CHOOSE h \in DOMAIN counts :
         /\ counts[h] = v
         /\ \A g \in DOMAIN counts : g < h => counts[g] # v
  ELSE -1

\* the stats memo; peakHour = hourlyOrders.indexOf(Math.max(...hourlyOrders))
stats ==
  LET hourly == hourlyOrders
      most == Max(hourly)
  IN  [revenue |-> revenue, orderCount |-> Len(filteredOrders),
       activeCount |-> Len(activeOrders),
       itemCounts |-> itemCounts, categoryRevenue |-> categoryRevenue,
       btwAmount |-> btwAmount, netRevenue |-> netRevenue,
       hourlyOrders |-> hourly, deliveryMethods |-> deliveryMethods,
       paymentMethods |-> paymentMethods, dayOfWeek |-> dayOfWeek,
       peakHour |-> indexOf(hourly, most), peakOrders |-> most]

AnalyticsOpen == PageReachable /\ activeTab = "analytics"

\* ---- receipt preview of the print modal
\* totals of the orders whose receipt is previewed, in cents (EUR 0.01,
\* 10.00, 109.00)
ReceiptTotals == {1, 1000, 10900}
\* 'Subtotal (Excl. BTW)': (printingOrder.total * 0.91).toFixed(2)
receiptSubtotal == toFixed2(RatMul(Whole(printingOrder[1].total), Rat(91, 100)))
\* 'BTW 9%': (printingOrder.total * 0.09).toFixed(2)
receiptBtw == toFixed2(RatMul(Whole(printingOrder[1].total), Rat(9, 100)))
\* 'TOTAL': printingOrder.total.toFixed(2)
receiptTotal == toFixed2(Whole(printingOrder[1].total))

\* 'Dzis'
RangeToday ==
  /\ AnalyticsOpen
  /\ customDateRange' = [start |-> Some(now), end |-> Some(now)]
  /\ UNCHANGED <<orders, drivers, now, uiVars, intakeVars, storeVars, menuItems>>

\* '7 Dni'
RangeLastDays(n) ==
  /\ AnalyticsOpen
  /\ customDateRange' = [start |-> Some(now - n * DayMs), end |-> Some(now)]
  /\ UNCHANGED <<orders, drivers, now, uiVars, intakeVars, storeVars, menuItems>>

\* 'Wszystko'
RangeAll ==
  /\ AnalyticsOpen
  /\ customDateRange' = [start |-> Null, end |-> Null]
  /\ UNCHANGED <<orders, drivers, now, uiVars, intakeVars, storeVars, menuItems>>

\* the menu tab: the Delete button of the confirmation dialog opened for dish
\* id; the context removes the dish from the catalog
deleteMenuItem(id) == menuItems' = {m \in menuItems : m.id # id}

ConfirmDeleteMenuItem(id) ==
  /\ PageReachable
  /\ activeTab = "menu"
  /\ \E m \in menuItems : m.id = id
  /\ deleteMenuItem(id)
  /\ UNCHANGED <<orders, drivers, now, uiVars, intakeVars, storeVars,
                 customDateRange>>

\* the date inputs: new Date('YYYY-MM-DD') is midnight UTC of that day, an
\* emptied input gives null
DateFromInput(day) == IF day = Null THEN Null ELSE Some(day[1] * DayMs)

SetStartDate(day) ==
  /\ AnalyticsOpen
  /\ customDateRange' = [customDateRange EXCEPT !.start = DateFromInput(day)]
  /\ UNCHANGED <<orders, drivers, now, uiVars, intakeVars, storeVars, menuItems>>

SetEndDate(day) ==
  /\ AnalyticsOpen
  /\ customDateRange' = [customDateRange EXCEPT !.end = DateFromInput(day)]
  /\ UNCHANGED <<orders, drivers, now, uiVars, intakeVars, storeVars, menuItems>>

\* ------------------------------------------------------ intake monitor
lifecycleVars == <<orders, drivers, now, activeTab, selectedOrder, printingOrder,
                   isPrinting, printTimer, showDeliveryModal, deliveryOrderId,
                   estimatedDeliveryMinutes, reportVars, storeVars>>

\* The ordering flow stores a new order while the monitor is followed.
OrderInserted(type) ==
  /\ Len(orders) < MaxIntakeOrders
  /\ orders' = ordersService_create(orders, NewOrder(Len(orders) + 1, type))
  /\ UNCHANGED <<drivers, now, uiVars, intakeVars, reportVars, storeVars>>

\* Notification.permission at mount, or the answer to requestPermission()
PermissionResolved(permission) ==
  /\ mounted
  /\ notificationPermission = "default"
  /\ permission \in {"granted", "denied"}
  /\ notificationPermission' = permission
  /\ UNCHANGED <<lifecycleVars, mounted, prevOrderCount, effectDeps,
                 audioAlertsEnabled, toastNotification, toastTimers,
                 osNotifications, notified, soundsPlayed, syncStatus,
                 syncInterval,
                 reconnectTimer>>

\* the sound switch of the settings tab
ToggleAudio ==
  /\ PageReachable
  /\ activeTab = "settings"
  /\ audioAlertsEnabled' = ~audioAlertsEnabled
  /\ UNCHANGED <<lifecycleVars, mounted, prevOrderCount, effectDeps,
                 notificationPermission, toastNotification, toastTimers,
                 osNotifications, notified, soundsPlayed, syncStatus,
                 syncInterval,
                 reconnectTimer>>

\* [orders, notificationPermission, playNotificationSound]
CurrentDeps == <<orders, notificationPermission, audioAlertsEnabled>>

\* new Notification(..., { tag: newOrder.id }): replaces the one with that tag
ShowNotification(shown, newOrder) ==
  {n \in shown : n.id # newOrder.id} \cup {OrderCopy(newOrder)}

\* if (!audioAlertsEnabled) return; otherwise a tone is started (a failure of
\* the audio context is swallowed): the tones started after the call
playNotificationSound ==
  IF audioAlertsEnabled THEN soundsPlayed + 1 ELSE soundsPlayed

\* variant: the sound and the toast are raised only with the OS notification
DetectNewOrders_grantedOnly ==
  /\ mounted
  /\ effectDeps # CurrentDeps
  /\ IF Len(ordersView) > prevOrderCount
     THEN LET newOrder == ordersView[Len(ordersView)]
          IN  /\ notified' = Append(notified, newOrder.id)
              /\ IF notificationPermission = "granted"
                 THEN /\ osNotifications' = ShowNotification(osNotifications, newOrder)
                      /\ soundsPlayed' = playNotificationSound
                      /\ toastNotification' = Some(newOrder.id)
                      /\ toastTimers' = Append(toastTimers, Len(notified) + 1)
                 ELSE UNCHANGED <<osNotifications, soundsPlayed,
                                  toastNotification, toastTimers>>
     ELSE UNCHANGED <<notified, soundsPlayed, osNotifications, toastNotification,
                      toastTimers>>
  /\ prevOrderCount' = Len(ordersView)
  /\ effectDeps' = CurrentDeps
  /\ UNCHANGED <<lifecycleVars, mounted, notificationPermission,
                 audioAlertsEnabled, syncStatus, syncInterval, reconnectTimer>>

\* variant: the effect notifies for the first element of the collection
DetectNewOrders_first ==
  /\ mounted
  /\ effectDeps # CurrentDeps
  /\ IF Len(ordersView) > prevOrderCount
     THEN LET newOrder == ordersView[1]
          IN  /\ notified' = Append(notified, newOrder.id)
              /\ osNotifications' =
                   IF notificationPermission = "granted"
                   THEN ShowNotification(osNotifications, newOrder)
                   ELSE osNotifications
              /\ soundsPlayed' = playNotificationSound
              /\ toastNotification' = Some(newOrder.id)
              /\ toastTimers' = Append(toastTimers, Len(notified) + 1)
     ELSE UNCHANGED <<notified, soundsPlayed, osNotifications, toastNotification,
                      toastTimers>>
  /\ prevOrderCount' = Len(ordersView)
  /\ effectDeps' = CurrentDeps
  /\ UNCHANGED <<lifecycleVars, mounted, notificationPermission,
                 audioAlertsEnabled, syncStatus, syncInterval, reconnectTimer>>

\* The detection effect: runs after a render in which a dependency changed.
DetectNewOrders ==
  /\ mounted
  /\ effectDeps # CurrentDeps
  /\ IF Len(ordersView) > prevOrderCount
     THEN LET newOrder == ordersView[Len(ordersView)]
          IN  /\ notified' = Append(notified, newOrder.id)
              /\ osNotifications' =
                   IF notificationPermission = "granted"
                   THEN ShowNotification(osNotifications, newOrder)
                   ELSE osNotifications
              /\ soundsPlayed' = playNotificationSound
              /\ toastNotification' = Some(newOrder.id)
              /\ toastTimers' = Append(toastTimers, Len(notified) + 1)
     ELSE UNCHANGED <<notified, soundsPlayed, osNotifications, toastNotification,
                      toastTimers>>
  /\ prevOrderCount' = Len(ordersView)
  /\ effectDeps' = CurrentDeps
  /\ UNCHANGED <<lifecycleVars, mounted, notificationPermission,
                 audioAlertsEnabled, syncStatus, syncInterval, reconnectTimer>>

\* notification.onclick
NotificationClick(n) ==
  /\ n \in osNotifications
  /\ osNotifications' = osNotifications \ {n}
  /\ IF mounted
     THEN activeTab' = "orders" /\ selectedOrder' = Some(n)
     ELSE UNCHANGED <<activeTab, selectedOrder>>
  /\ UNCHANGED <<orders, drivers, now, printingOrder, isPrinting, printTimer,
                 showDeliveryModal, deliveryOrderId, estimatedDeliveryMinutes,
                 mounted, prevOrderCount, effectDeps, notificationPermission,
                 audioAlertsEnabled, toastNotification, toastTimers, notified,
                 soundsPlayed,
                 syncStatus, syncInterval, reconnectTimer, reportVars, storeVars>>

\* setTimeout(() => setToastNotification(null), 5000): the timeouts have the
\* same delay, so the oldest pending one fires first
ToastTimerFires ==
  /\ toastTimers # << >>
  /\ toastTimers' = Tail(toastTimers)
  /\ toastNotification' = Null
  /\ UNCHANGED <<lifecycleVars, mounted, prevOrderCount, effectDeps,
                 notificationPermission, audioAlertsEnabled, osNotifications,
                 notified, soundsPlayed, syncStatus, syncInterval, reconnectTimer>>

\* the toast's close button (the toast lies above the modals)
CloseToast ==
  /\ mounted
  /\ toastNotification # Null
  /\ toastNotification' = Null
  /\ UNCHANGED <<lifecycleVars, mounted, prevOrderCount, effectDeps,
                 notificationPermission, audioAlertsEnabled, toastTimers,
                 osNotifications, notified, soundsPlayed, syncStatus,
                 syncInterval,
                 reconnectTimer>>

\* ---- health check
\* variant: a blip shows 'reconnecting' but starts no timeout
HealthCheckTick_noTimer(blip) ==
  /\ syncInterval
  /\ ~reconnectTimer
  /\ blip
  /\ syncStatus' = "reconnecting"
  /\ UNCHANGED <<lifecycleVars, mounted, prevOrderCount, effectDeps,
                 notificationPermission, audioAlertsEnabled, toastNotification,
                 toastTimers, osNotifications, notified, soundsPlayed,
                 syncInterval, reconnectTimer>>

\* The interval callback; blip is Math.random() < 0.05.  The 2 s timeout of
\* one blip has fired before the next 15 s tick.
HealthCheckTick(blip) ==
  /\ syncInterval
  /\ ~reconnectTimer
  /\ blip
  /\ syncStatus' = "reconnecting"
  /\ reconnectTimer' = TRUE
  /\ UNCHANGED <<lifecycleVars, mounted, prevOrderCount, effectDeps,
                 notificationPermission, audioAlertsEnabled, toastNotification,
                 toastTimers, osNotifications, notified, soundsPlayed,
                 syncInterval>>

ReconnectTimerFires ==
  /\ reconnectTimer
  /\ reconnectTimer' = FALSE
  /\ syncStatus' = "connected"
  /\ UNCHANGED <<lifecycleVars, mounted, prevOrderCount, effectDeps,
                 notificationPermission, audioAlertsEnabled, toastNotification,
                 toastTimers, osNotifications, notified, soundsPlayed,
                 syncInterval>>

\* The console view is closed: the effects' cleanup functions run.
Unmount ==
  /\ mounted
  /\ mounted' = FALSE
  /\ syncInterval' = FALSE
  /\ UNCHANGED <<lifecycleVars, prevOrderCount, effectDeps,
                 notificationPermission, audioAlertsEnabled, toastNotification,
                 toastTimers, osNotifications, notified, soundsPlayed, syncStatus,
                 reconnectTimer>>

\* ------------------------------------------------------------ Next, Spec
\* Steps of the order queue: arrival, selection, status buttons, print.
QueueStep ==
  \/ \E type \in DeliveryTypes : OrderArrives(type)
  \/ \E id \in OrderIds : StoreCancel(id)
  \/ \E tab \in Tabs : SetActiveTab(tab)
  \/ \E i \in DOMAIN orders : SelectOrder(i)
  \/ CloseDetail
  \/ ClickStartPreparing
  \/ ClickReadyForPickup
  \/ ClickMarkCompleted
  \/ ClickOutForDelivery
  \/ DismissDeliveryModal
  \/ ConfirmStartDelivery
  \/ ClickPrintReceipt
  \/ CancelPrint
  \/ performActualPrint
  \/ PrintTimerFires

\* Order lifecycle with the clock and the minutes field; the driver registry
\* is left alone (no order field but assignedDriver depends on it).
Next ==
  \/ QueueStep
  \/ Tick
  \/ \E mins \in QuickMinutes : PickQuickMinutes(mins)
  \/ \E text \in InputTexts : TypeMinutes(text)

Spec == Init /\ [][Next]_vars

\* Delivery start: arrival, cancellation, selection, the status buttons and the
\* delivery modal with its minutes field, under a running clock; receipts are
\* not printed and the tab stays on the order queue.
NextDeliver ==
  \/ \E type \in DeliveryTypes : OrderArrives(type)
  \/ \E id \in OrderIds : StoreCancel(id)
  \/ \E i \in DOMAIN orders : SelectOrder(i)
  \/ CloseDetail
  \/ ClickStartPreparing
  \/ ClickReadyForPickup
  \/ ClickMarkCompleted
  \/ ClickOutForDelivery
  \/ DismissDeliveryModal
  \/ ConfirmStartDelivery
  \/ Tick
  \/ \E mins \in QuickMinutes : PickQuickMinutes(mins)
  \/ \E text \in InputTexts : TypeMinutes(text)

SpecDeliver == Init /\ [][NextDeliver]_vars

\* Dispatch: the order lifecycle with driver assignment and the driver status
\* selector; the clock stands still and the minutes field keeps its default.
NextDispatch ==
  \/ QueueStep
  \/ \E d \in Drivers \cup {NoDriver} : AssignDriverSelect(d)
  \/ \E d \in Drivers, status \in DriverStatuses : DriverStatusSelect(d, status)

SpecDispatch == Init /\ [][NextDispatch]_vars

\* Driver assignment over the whole status graph: arrival, cancellation,
\* selection, the status buttons and the delivery modal, with the driver
\* select and the driver status selector; receipts are not printed.
NextAssign ==
  \/ \E type \in DeliveryTypes : OrderArrives(type)
  \/ \E id \in OrderIds : StoreCancel(id)
  \/ \E tab \in Tabs : SetActiveTab(tab)
  \/ \E i \in DOMAIN orders : SelectOrder(i)
  \/ CloseDetail
  \/ ClickStartPreparing
  \/ ClickReadyForPickup
  \/ ClickMarkCompleted
  \/ ClickOutForDelivery
  \/ DismissDeliveryModal
  \/ ConfirmStartDelivery
  \/ \E d \in Drivers \cup {NoDriver} : AssignDriverSelect(d)
  \/ \E d \in Drivers, status \in DriverStatuses : DriverStatusSelect(d, status)

SpecAssign == Init /\ [][NextAssign]_vars

\* Intake monitor: arrivals and cancellations in the store, the detection
\* effect, the permission answer, the sound switch, the toast and the OS
\* notifications.
NextIntake ==
  \/ \E type \in DeliveryTypes : OrderInserted(type)
  \/ \E id \in OrderIds : StoreCancel(id)
  \/ \E tab \in Tabs : SetActiveTab(tab)
  \/ \E permission \in Permissions : PermissionResolved(permission)
  \/ ToggleAudio
  \/ DetectNewOrders
  \/ \E n \in osNotifications : NotificationClick(n)
  \/ ToastTimerFires
  \/ CloseToast

SpecIntake == Init /\ [][NextIntake]_vars

\* Alert channels: arrivals, the detection effect, the permission answer, the
\* sound switch of the settings tab, and the toast with its timeouts.
NextAlerts ==
  \/ \E type \in DeliveryTypes : OrderInserted(type)
  \/ \E tab \in {"orders", "settings"} : SetActiveTab(tab)
  \/ \E permission \in Permissions : PermissionResolved(permission)
  \/ ToggleAudio
  \/ DetectNewOrders
  \/ ToastTimerFires
  \/ CloseToast

SpecAlerts == Init /\ [][NextAlerts]_vars

\* Health check of the open console: arrivals and their alerts go on while
\* the 15 s interval ticks; a timeout that is pending does fire.
NextHealth ==
  \/ \E type \in DeliveryTypes : OrderInserted(type)
  \/ \E permission \in Permissions : PermissionResolved(permission)
  \/ DetectNewOrders
  \/ ToastTimerFires
  \/ CloseToast
  \/ \E blip \in BOOLEAN : HealthCheckTick(blip)
  \/ ReconnectTimerFires

SpecHealth == Init /\ [][NextHealth]_vars /\ WF_vars(ReconnectTimerFires)

\* Timers of the console and its closing: a toast, a health-check blip and a
\* receipt print may be pending when the view is closed.
NextTimers ==
  \/ \E type \in DeliveryTypes : OrderArrives(type)
  \/ \E i \in DOMAIN orders : SelectOrder(i)
  \/ ClickPrintReceipt
  \/ performActualPrint
  \/ PrintTimerFires
  \/ DetectNewOrders
  \/ ToastTimerFires
  \/ CloseToast
  \/ \E blip \in BOOLEAN : HealthCheckTick(blip)
  \/ ReconnectTimerFires
  \/ Unmount

SpecTimers == Init /\ [][NextTimers]_vars

\* Store calls that may be rejected: the status buttons, the driver select,
\* the delivery modal and the staff notes of the detail panel.
NextStore ==
  \/ \E type \in DeliveryTypes : OrderArrives(type)
  \/ \E i \in DOMAIN orders : SelectOrder(i)
  \/ ClickStartPreparing
  \/ ClickReadyForPickup
  \/ ClickMarkCompleted
  \/ ClickOutForDelivery
  \/ ConfirmStartDelivery
  \/ \E d \in Drivers \cup {NoDriver} : AssignDriverSelect(d)
  \/ \E text \in NoteTexts : TypeNote(text)
  \/ \E name \in NameTexts : TypeStaffName(name)
  \/ ClickAddNote
  \/ \E error \in StoreErrors : UpdateStatusRejected(error)
  \/ \E d \in Drivers \cup {NoDriver}, error \in StoreErrors :
       AssignDriverRejected(d, error)
  \/ \E error \in StoreErrors : StartDeliveryRejected(error)
  \/ \E error \in StoreErrors : AddNoteRejected(error)

SpecStore == Init /\ [][NextStore]_vars

\* Analytics: the console opens over a collection of orders, the operator
\* goes to the analytics tab and sets the report range.
InitStats ==
  /\ orders \in ReportCollections
  /\ now \in ReportNows
  /\ InitConsole

NextStats ==
  \/ SetActiveTab("analytics")
  \/ RangeToday
  \/ \E n \in QuickRanges : RangeLastDays(n)
  \/ RangeAll
  \/ \E day \in {Null} \cup {Some(d) : d \in ReportDays} : SetStartDate(day)
  \/ \E day \in {Null} \cup {Some(d) : d \in ReportDays} : SetEndDate(day)

SpecStats == InitStats /\ [][NextStats]_vars

\* The tax split of the report: the console opens over completed, paid orders.
InitVat ==
  /\ orders \in VatCollections
  /\ now \in ReportNows
  /\ InitConsole

SpecVat == InitVat /\ [][NextStats]_vars

\* The charts of the report: the console opens in the evening of today over
\* orders of yesterday and today, and the operator uses the range buttons.
NextCharts ==
  \/ SetActiveTab("analytics")
  \/ RangeToday
  \/ \E n \in QuickRanges : RangeLastDays(n)
  \/ RangeAll

InitPeak ==
  /\ orders \in PeakCollections
  /\ now = 3 * DayMs - 1
  /\ InitConsole

SpecPeak == InitPeak /\ [][NextCharts]_vars

InitCharts ==
  /\ orders \in ChartCollections
  /\ now = 3 * DayMs - 1
  /\ InitConsole

SpecCharts == InitCharts /\ [][NextCharts]_vars

\* The category chart: the console opens over completed orders of today, the
\* operator deletes dishes in the menu tab and reads the report.
InitCatalog ==
  /\ orders \in CatalogCollections
  /\ now = 3 * DayMs - 1
  /\ InitConsole

NextCatalog ==
  \/ \E tab \in {"menu", "analytics"} : SetActiveTab(tab)
  \/ \E m \in MenuCatalog : ConfirmDeleteMenuItem(m.id)
  \/ RangeToday
  \/ RangeAll

SpecCatalog == InitCatalog /\ [][NextCatalog]_vars

\* Receipt preview: orders of several totals arrive, the operator selects
\* them, moves them on and opens, cancels or runs the receipt print.
NextReceipt ==
  \/ \E type \in DeliveryTypes, total \in ReceiptTotals : OrderPlaced(type, total)
  \/ \E tab \in Tabs : SetActiveTab(tab)
  \/ \E i \in DOMAIN orders : SelectOrder(i)
  \/ CloseDetail
  \/ ClickStartPreparing
  \/ ClickPrintReceipt
  \/ CancelPrint
  \/ performActualPrint
  \/ PrintTimerFires

SpecReceipt == Init /\ [][NextReceipt]_vars

\* =================================================================
\* Properties
\* =================================================================
\* The status graph of the order state machine: pending -> preparing ->
\* {ready | delivery} -> completed, cancelled from any non-terminal status;
\* receipt-print finalization takes a non-terminal order to completed.
GraphEdge(s, t) ==
  \/ s = "pending" /\ t = "preparing"
  \/ s = "preparing" /\ t \in {"ready", "delivery"}
  \/ s \in {"ready", "delivery"} /\ t = "completed"
  \/ ~IsTerminal(s) /\ t = "cancelled"
  \/ ~IsTerminal(s) /\ t = "completed"

\* C1: every change of an order's status follows the status graph; a request
\* for any other target leaves the status unchanged, so no order regresses.
C1_StatusFollowsGraph ==
  [][\A i \in DOMAIN orders :
       orders'[i].status # orders[i].status
         => GraphEdge(orders[i].status, orders'[i].status)]_vars

\* C2: once an order is completed or cancelled, no later operation changes
\* its status.
C2_TerminalStays ==
  [][\A i \in DOMAIN orders :
       IsTerminal(orders[i].status) => orders'[i].status = orders[i].status]_vars

\* C3: startDelivery takes effect only on an order that is preparing and of
\* delivery type when it is applied; on any other order it changes nothing.
C3_StartDeliveryOnlyWhenPreparing ==
  [][ConfirmStartDelivery =>
       LET o == OrderById(deliveryOrderId[1])
       IN  (o.status = "preparing" /\ o.type = "delivery") \/ orders' = orders]_vars

\* C4: a startDelivery(order, m) sets deliveryDepartedAt to the current time,
\* estimatedDeliveryTime to exactly deliveryDepartedAt + m minutes and status
\* to delivery, in one update, and leaves the other orders alone.
C4_StartDeliverySetsEta ==
  [][ConfirmStartDelivery =>
       \A i \in DOMAIN orders :
         IF orders[i].id = deliveryOrderId[1]
         THEN /\ orders'[i].status = "delivery"
              /\ orders'[i].deliveryDepartedAt = Some(now)
              /\ orders'[i].estimatedDeliveryTime # Null
              /\ orders'[i].estimatedDeliveryTime[1]
                   - orders'[i].deliveryDepartedAt[1]
                     = estimatedDeliveryMinutes * 60 * 1000
         ELSE orders'[i] = orders[i]]_vars

\* the scenario: a delivery order out for delivery with ETA = departure + 30 min
C4_Witness ==
  \E i \in DOMAIN orders :
    /\ orders[i].status = "delivery"
    /\ orders[i].type = "delivery"
    /\ orders[i].deliveryDepartedAt = Some(MinuteMs)
    /\ orders[i].estimatedDeliveryTime = Some(31 * MinuteMs)

\* C5: startDelivery is never issued with a non-positive estimatedMinutes, so
\* no order's estimatedDeliveryTime is at or before its deliveryDepartedAt.
C5_EtaAfterDeparture ==
  \A i \in DOMAIN orders :
    orders[i].estimatedDeliveryTime # Null =>
      /\ orders[i].deliveryDepartedAt # Null
      /\ orders[i].estimatedDeliveryTime[1] > orders[i].deliveryDepartedAt[1]

C7_PrintRespectsTerminal ==
  [][PrintTimerFires =>
       LET o == OrderById(printTimer[1].id)
       IN  IF IsTerminal(o.status) THEN orders' = orders
           ELSE orders'[IndexOf(o.id)].status = "completed"]_vars

\* C8: each driver's activeDeliveries equals the number of uncompleted orders
\* currently assigned to that driver (so it is never negative).
AssignedOpen(d) ==
  {i \in DOMAIN orders :
     orders[i].assignedDriver = d /\ orders[i].status # "completed"}

C8_LoadMatchesAssignments ==
  \A d \in Drivers : drivers[d].activeDeliveries = Cardinality(AssignedOpen(d))

\* C9: a driver that is not offline is busy if and only if its
\* activeDeliveries is greater than 0, and available otherwise.
C9_BusyIffLoaded ==
  \A d \in Drivers :
    drivers[d].status # "offline" =>
      (drivers[d].status = "busy" <=> drivers[d].activeDeliveries > 0)

\* C10: a driver set offline stays offline, and out of the candidate list,
\* until the operator changes the status with the driver status selector.
C10_OfflineUntilOperatorChanges ==
  [][\A d \in Drivers :
       drivers[d].status = "offline" /\ drivers'[d].status # "offline"
         => \E status \in DriverStatuses : DriverStatusSelect(d, status)]_vars

\* C11: an order with a driver assigned is a delivery order; the driver
\* select never puts a driver on a pickup order.
C11_DriverOnlyOnDelivery ==
  \A i \in DOMAIN orders :
    orders[i].assignedDriver # NoDriver => orders[i].type = "delivery"

\* the driver select put a driver on the delivery order open in the panel
C11_Witness ==
  /\ PanelOpen
  /\ selectedOrder[1].assignedDriver = NoDriver
  /\ \E i \in DOMAIN orders :
       /\ orders[i].id = selectedOrder[1].id
       /\ orders[i].type = "delivery"
       /\ orders[i].assignedDriver \in Drivers

\* C12: assignDriver, for a driver id or for null and whatever the order's
\* status, leaves every order's status, deliveryDepartedAt and
\* estimatedDeliveryTime as they were.
C12_AssignKeepsStatus ==
  [][(\E d \in Drivers \cup {NoDriver} : AssignDriverSelect(d)) =>
       \A i \in DOMAIN orders :
         /\ orders'[i].status = orders[i].status
         /\ orders'[i].deliveryDepartedAt = orders[i].deliveryDepartedAt
         /\ orders'[i].estimatedDeliveryTime = orders[i].estimatedDeliveryTime]_vars

\* a driver was assigned to an order already out for delivery: the panel's
\* copy, taken in status delivery, still shows no driver
C12_Witness ==
  \E i \in DOMAIN orders :
    /\ orders[i].status = "delivery"
    /\ orders[i].deliveryDepartedAt # Null
    /\ orders[i].assignedDriver \in Drivers
    /\ selectedOrder # Null
    /\ selectedOrder[1].id = orders[i].id
    /\ selectedOrder[1].status = "delivery"
    /\ selectedOrder[1].assignedDriver = NoDriver

\* C13: deliveryDepartedAt and estimatedDeliveryTime are set or changed only
\* by startDelivery, in a step that leaves the order in status delivery (so
\* an order with deliveryDepartedAt set has been in delivery); a new order
\* has neither.
C13_TimestampsOnlyByStartDelivery ==
  [][/\ \A i \in DOMAIN orders :
          (\/ orders'[i].deliveryDepartedAt # orders[i].deliveryDepartedAt
           \/ orders'[i].estimatedDeliveryTime # orders[i].estimatedDeliveryTime)
            => /\ ConfirmStartDelivery
               /\ orders[i].id = deliveryOrderId[1]
               /\ orders'[i].status = "delivery"
      /\ \A j \in DOMAIN orders' \ DOMAIN orders :
          /\ orders'[j].deliveryDepartedAt = Null
          /\ orders'[j].estimatedDeliveryTime = Null]_vars

\* an order that left for delivery was completed and then got a driver:
\* updateStatus and assignDriver acted on a row with both timestamps set
C13_Witness ==
  \E i \in DOMAIN orders :
    /\ orders[i].status = "completed"
    /\ orders[i].deliveryDepartedAt # Null
    /\ orders[i].estimatedDeliveryTime # Null
    /\ orders[i].assignedDriver \in Drivers
    /\ selectedOrder # Null
    /\ selectedOrder[1].id = orders[i].id
    /\ selectedOrder[1].status = "completed"
    /\ selectedOrder[1].assignedDriver = NoDriver

\* ---- intake monitor
\* how many notifications were raised for the order id
TimesNotified(id) == Cardinality({k \in DOMAIN notified : notified[k] = id})
\* ids of the orders that were in the collection at the previous observation
PreviouslyObserved == {effectDeps[1][i].id : i \in DOMAIN effectDeps[1]}
\* the newest order of the collection
Newest == CHOOSE o \in {orders[i] : i \in DOMAIN orders} :
            \A i \in DOMAIN orders : orders[i].createdAt <= o.createdAt

\* C14: no order is notified twice, and once the monitor has observed the
\* collection every order that arrived has been notified exactly once.
C14_NotifiedExactlyOnce ==
  /\ \A id \in OrderIds : TimesNotified(id) <= 1
  /\ effectDeps = CurrentDeps => \A id \in OrderIds : TimesNotified(id) = 1

\* C15: an observation that finds the collection grown by 2 (the retained
\* count jumps by 2) raises exactly one notification, for the last element
\* of the current collection.
C15_BurstNotifiesOnce ==
  [][(prevOrderCount' = prevOrderCount + 2) =>
       /\ Len(ordersView) = prevOrderCount'
       /\ Len(notified') = Len(notified) + 1
       /\ notified'[Len(notified')] = ordersView[Len(ordersView)].id
       /\ toastNotification' = Some(ordersView[Len(ordersView)].id)
       /\ Len(toastTimers') = Len(toastTimers) + 1]_vars

\* two orders were observed at once and one notification was raised
C15_Witness ==
  /\ Len(orders) = 2
  /\ prevOrderCount = 2
  /\ effectDeps = CurrentDeps
  /\ Len(notified) = 1

\* C16: an observation that finds exactly one more order notifies for that
\* newly arrived order: the last element of the collection is the newest
\* order, and the toast and the OS notification are about it.
C16_NotifiesTheNewOrder ==
  [][(DetectNewOrders /\ Len(ordersView) = prevOrderCount + 1) =>
       /\ ordersView[Len(ordersView)].id = Newest.id
       /\ notified'[Len(notified')] \notin PreviouslyObserved
       /\ toastNotification' = Some(Newest.id)
       /\ notificationPermission = "granted" =>
             \E n \in osNotifications' : n.id = Newest.id]_vars

\* C17: a toast leaves the screen only by the close button or by the expiry
\* of the timeout that was started with it (at most one toast is held, and a
\* new notification replaces it).
C17_ToastLeavesByOwnTimerOrClose ==
  [][(toastNotification # Null /\ toastNotification' = Null) =>
       \/ CloseToast
       \/ ToastTimerFires /\ Head(toastTimers) = Len(notified)]_vars

\* C18: once the console view is closed, no timer of it is left to fire:
\* the health-check interval, the reconnect timeout, the toast timeouts and
\* the print timeout are cancelled.
C18_NoTimerAfterClose ==
  ~mounted =>
    /\ ~syncInterval
    /\ ~reconnectTimer
    /\ toastTimers = << >>
    /\ printTimer = Null

DayOf(t) == t \div DayMs
\* the eligibility rule: accepted payment, completed and, when both ends of
\* the range are set, created on a day from the start day to the end day
Eligible(o) ==
  /\ o.payment.status = "paid" \/ o.payment.method = "cash"
  /\ o.status = "completed"
  /\ (customDateRange.start # Null /\ customDateRange.end # Null) =>
       /\ DayOf(customDateRange.start[1]) <= DayOf(o.createdAt)
       /\ DayOf(o.createdAt) <= DayOf(customDateRange.end[1])

\* C20: the orders counted in revenue and orderCount are exactly the orders
\* that are paid or cash, completed and, when both start and end are set,
\* created within [start 00:00:00, end 23:59:59]; with no full range the
\* date is not checked.
C20_EligibleSet ==
  LET report == stats
  IN  /\ filteredOrders = SelectSeq(orders, Eligible)
      /\ report.orderCount = Cardinality({i \in DOMAIN orders : Eligible(orders[i])})
      /\ report.revenue = SumTotals(SelectSeq(orders, Eligible))

\* a paid, completed order of yesterday under the range [today, today]
C20_Witness ==
  /\ activeTab = "analytics"
  /\ customDateRange = [start |-> Some(now), end |-> Some(now)]
  /\ Len(orders) = 1
  /\ orders[1].status = "completed"
  /\ orders[1].payment.status = "paid"
  /\ orders[1].createdAt = 2 * DayMs - 1
  /\ stats.orderCount = 0
  /\ stats.revenue = 0

\* C21: activeCount is the number of orders that are paid or cash and whose
\* status is neither completed nor cancelled, counted over the whole order
\* collection: whatever the report range is, it is the same number.
C21_ActiveCountIgnoresRange ==
  stats.activeCount =
    Cardinality({i \in DOMAIN orders :
                   /\ orders[i].payment.status = "paid"
                        \/ orders[i].payment.method = "cash"
                   /\ orders[i].status # "completed"
                   /\ orders[i].status # "cancelled"})

\* the scenario: the operator has set a report range that leaves out the day
\* of an accepted order that is still under way, and the order is counted
C21_Witness ==
  /\ AnalyticsOpen
  /\ startDate # Null /\ endDate # Null
  /\ stats.activeCount = 1
  /\ \E i \in DOMAIN orders :
       /\ isAccepted(orders[i])
       /\ orders[i].status = "delivery"
       /\ orders[i].createdAt > endDate[1]

\* C22: for every revenue, tax = revenue * 9/109 and netRevenue = revenue - tax,
\* so tax + netRevenue = revenue and netRevenue * 109 = revenue * 100; a
\* revenue of 109.00 gives a tax of 9.00 and a net revenue of 100.00.
C22_InclusiveVatSplit ==
  LET report == stats
  IN  /\ report.btwAmount.num * 109 = report.revenue * 9 * report.btwAmount.den
      /\ RatEq(RatAdd(report.btwAmount, report.netRevenue), Whole(report.revenue))
      /\ RatEq(RatMul(report.netRevenue, Whole(109)), Whole(report.revenue * 100))
      /\ report.revenue = 10900 =>
            /\ toFixed2(report.btwAmount) = 900
            /\ toFixed2(report.netRevenue) = 10000

\* the scenario: the operator has set the range to today and the report shows
\* a revenue of 109.00 split into 9.00 and 100.00
C22_Witness ==
  /\ AnalyticsOpen
  /\ customDateRange = [start |-> Some(now), end |-> Some(now)]
  /\ stats.orderCount = 1
  /\ stats.revenue = 10900
  /\ toFixed2(stats.btwAmount) = 900
  /\ toFixed2(stats.netRevenue) = 10000

\* C23: peakOrders is the largest of the 24 hourly counts and peakHour the
\* lowest hour that holds it: of two hours tied at the maximum the lower one
\* is reported, and with no eligible order peakHour = 0 and peakOrders = 0.
C23_PeakIsFirstMax ==
  LET report == stats
  IN  /\ \A h \in 0..23 :
           /\ report.hourlyOrders[h] =
                Cardinality({i \in DOMAIN orders :
                               /\ Eligible(orders[i])
                               /\ getHours(orders[i].createdAt) = h})
           /\ report.hourlyOrders[h] <= report.peakOrders
           /\ h < report.peakHour => report.hourlyOrders[h] < report.peakOrders
      /\ report.peakHour \in 0..23
      /\ report.hourlyOrders[report.peakHour] = report.peakOrders
      /\ report.orderCount = 0 => (report.peakHour = 0 /\ report.peakOrders = 0)

\* the scenario: under the range [today, today] one eligible order of 07:00
\* and one of 19:00 tie at the maximum, and 7 is reported
C23_Witness ==
  /\ AnalyticsOpen
  /\ customDateRange = [start |-> Some(now), end |-> Some(now)]
  /\ Len(orders) = 2
  /\ LET report == stats
     IN  /\ report.hourlyOrders[7] = 1
         /\ report.hourlyOrders[19] = 1
         /\ report.peakOrders = 1
         /\ report.peakHour = 7

\* sum of the buckets lo..hi of a chart
RECURSIVE SumBuckets(_, _, _)
SumBuckets(counts, lo, hi) ==
  IF lo > hi THEN 0 ELSE counts[lo] + SumBuckets(counts, lo + 1, hi)

\* C29: for every order collection and range the 24 hourly buckets sum to
\* orderCount, the 7 day-of-week buckets sum to orderCount, delivery + pickup
\* is orderCount, and card + cash + ideal is orderCount less the eligible
\* orders paid by another method, so never more than orderCount.
C29_DistributionsCoverEligible ==
  LET report == stats
      otherMethod == Cardinality({i \in DOMAIN orders :
                                    /\ Eligible(orders[i])
                                    /\ orders[i].payment.method
                                         \notin {"card", "cash", "ideal"}})
      byMethod == report.paymentMethods.card + report.paymentMethods.cash
                    + report.paymentMethods.ideal
  IN  /\ SumBuckets(report.hourlyOrders, 0, 23) = report.orderCount
      /\ SumBuckets(report.dayOfWeek, 0, 6) = report.orderCount
      /\ report.deliveryMethods.delivery + report.deliveryMethods.pickup
           = report.orderCount
      /\ byMethod = report.orderCount - otherMethod
      /\ byMethod <= report.orderCount

\* the scenario: under 'Wszystko' a delivery paid by bancontact on Friday
\* evening and a pickup paid by card on Saturday morning are both eligible
C29_Witness ==
  /\ AnalyticsOpen
  /\ customDateRange = [start |-> Null, end |-> Null]
  /\ LET report == stats
     IN  /\ report.orderCount = 2
         /\ report.paymentMethods = [card |-> 1, cash |-> 0, ideal |-> 0]
         /\ report.deliveryMethods = [delivery |-> 1, pickup |-> 1]
         /\ report.hourlyOrders[7] = 1 /\ report.hourlyOrders[19] = 1
         /\ report.dayOfWeek[5] = 1 /\ report.dayOfWeek[6] = 1
  /\ \E i \in DOMAIN orders : orders[i].payment.method = "bancontact"

\* the lines of the eligible orders, each named by its order and position
EligibleLines ==
  UNION {{[order |-> i, line |-> k, id |-> orders[i].items[k].id,
           name |-> orders[i].items[k].name,
           quantity |-> orders[i].items[k].quantity,
           amount |-> orders[i].items[k].price * orders[i].items[k].quantity] :
            k \in DOMAIN orders[i].items} :
         i \in {j \in DOMAIN orders : Eligible(orders[j])}}

RECURSIVE SumLineAmounts(_)
SumLineAmounts(lines) ==
  IF lines = {} THEN 0
  ELSE LET l == CHOOSE x \in lines : TRUE
       IN  l.amount + SumLineAmounts(lines \ {l})

RECURSIVE SumLineQuantities(_)
SumLineQuantities(lines) ==
  IF lines = {} THEN 0
  ELSE LET l == CHOOSE x \in lines : TRUE
       IN  l.quantity + SumLineQuantities(lines \ {l})

\* C24: a line of an eligible order whose id is not in the current catalog
\* adds nothing to any categoryRevenue entry, the aggregation still completes,
\* the order's total still counts in revenue and the line's quantity in
\* itemCounts; a line whose id is in the catalog adds price * quantity to its
\* category.
C24_MissingDishAddsNothing ==
  LET report == stats
      lines == EligibleLines
  IN  /\ DOMAIN report.categoryRevenue \subseteq Categories
      /\ \A c \in Categories :
           (IF c \in DOMAIN report.categoryRevenue
            THEN report.categoryRevenue[c] ELSE 0)
             = SumLineAmounts({l \in lines :
                                 \E m \in menuItems :
                                   m.id = l.id /\ m.category = c})
      /\ DOMAIN report.itemCounts = {l.name : l \in lines}
      /\ \A n \in DOMAIN report.itemCounts :
           report.itemCounts[n] = SumLineQuantities({l \in lines : l.name = n})
      /\ report.revenue = SumTotals(SelectSeq(orders, Eligible))

\* the scenario: baklava has been deleted from the menu; an eligible order of
\* one gyros and two baklava counts 9.00 under mains, nothing under desserts,
\* two baklava in itemCounts and its whole total in revenue
C24_Witness ==
  /\ AnalyticsOpen
  /\ menuItems = {m \in MenuCatalog : m.id = 1}
  /\ Len(orders) = 1
  /\ orders[1].items =
       <<[id |-> 1, name |-> "gyros", price |-> 900, quantity |-> 1],
         [id |-> 2, name |-> "baklava", price |-> 500, quantity |-> 2]>>
  /\ LET report == stats
     IN  /\ DOMAIN report.categoryRevenue = {"mains"}
         /\ report.categoryRevenue["mains"] = 900
         /\ report.itemCounts["baklava"] = 2
         /\ report.revenue = orders[1].total

\* C25: when the OS notification permission is not granted, an observed
\* arrival raises no OS notification but still the alert tone (if audio is
\* enabled) and the toast, and the order collection is left as it is; the
\* permission is only asked for while it is undecided, so once it is granted
\* or denied it stays.
C25_DeniedPermissionDegrades ==
  [][/\ (Len(notified') = Len(notified) + 1 /\ notificationPermission # "granted") =>
          /\ osNotifications' = osNotifications
          /\ toastNotification' = Some(notified'[Len(notified')])
          /\ soundsPlayed' = soundsPlayed + (IF audioAlertsEnabled THEN 1 ELSE 0)
          /\ orders' = orders
          /\ notified'[Len(notified')] \in OrderIds
     /\ notificationPermission # "default" =>
          notificationPermission' = notificationPermission]_vars

\* the scenario: the permission was denied, then an order arrived and was
\* announced by tone and toast only
C25_Witness ==
  /\ notificationPermission = "denied"
  /\ Len(orders) = 1
  /\ notified = <<orders[1].id>>
  /\ soundsPlayed = 1
  /\ toastNotification = Some(orders[1].id)
  /\ osNotifications = {}

\* C26: whenever the health-check tick puts the sync status into reconnecting,
\* the timeout it started brings it back to connected (reconnecting always
\* leads to connected, and the status is never anything but connected or
\* reconnecting); a change of the sync status changes nothing else: the
\* order collection, the driver records and the retained order count stay.
C26_ReconnectSelfClears ==
  /\ [](syncStatus \in {"connected", "reconnecting"})
  /\ [](syncStatus = "reconnecting" => reconnectTimer)
  /\ (syncStatus = "reconnecting") ~> (syncStatus = "connected")
  /\ [][syncStatus' # syncStatus =>
          /\ orders' = orders
          /\ drivers' = drivers
          /\ prevOrderCount' = prevOrderCount
          /\ effectDeps' = effectDeps
          /\ notified' = notified
          /\ toastNotification' = toastNotification]_vars

\* the scenario: a blip while an observed order is in the collection
C26_Witness ==
  /\ syncStatus = "reconnecting"
  /\ reconnectTimer
  /\ Len(orders) = 1
  /\ prevOrderCount = 1
  /\ Len(notified) = 1

\* C27: no timeout dismisses a toast earlier than 5 seconds after that toast
\* was shown: a timeout that fires while a toast is on screen is the one
\* started with that toast (the toast of the latest notification), so the
\* timeout of a replaced toast does not take the new toast away.
C27_TimerDismissesOnlyItsToast ==
  [][(/\ toastTimers # << >>
      /\ toastTimers' = Tail(toastTimers)
      /\ toastNotification # Null) =>
       Head(toastTimers) = Len(notified)]_vars

\* C28: while an order is selected in the detail panel, the status the panel
\* chooses its buttons from is that order's status in the current order
\* collection; after 'Start Preparing' has succeeded the panel no longer
\* offers 'Start Preparing' for the order.
C28_PanelStatusIsCurrent ==
  selectedOrder # Null =>
    /\ selectedOrder[1].id \in OrderIds
    /\ selectedOrder[1].status = OrderById(selectedOrder[1].id).status
    /\ OfferedButton(selectedOrder[1])
         = OfferedButton(OrderCopy(OrderById(selectedOrder[1].id)))

\* C30: for every order total, the split shown on the receipt preview
\* ('Subtotal (Excl. BTW)' and 'BTW 9%') is the inclusive split the report
\* applies to that amount: tax = total * 9/109 and net = total - tax, so the
\* receipt's tax is never total * 0.09.
C30_ReceiptSplitIsInclusive ==
  printingOrder # Null =>
    LET total == Whole(printingOrder[1].total)
        tax == RatMul(total, Rat(9, 109))
    IN  /\ receiptBtw = toFixed2(tax)
        /\ receiptSubtotal = toFixed2(RatSub(total, tax))

====
